---------------------------- MODULE Spec2Model ----------------------------
(***************************************************************************)
(* A model of jsonschemadoc.Generate (src/jsonschemadoc.go): the walk over *)
(* a parsed JSON Schema that collects property descriptors into groups,    *)
(* the sort of groups and of each group's properties, and the rendering of *)
(* the commented pseudo-JSON document.                                     *)
(*                                                                         *)
(* Text is modelled by strings, with Len, \o and SubSeq acting on them as  *)
(* on sequences of characters.  The strings of the model use only          *)
(* characters that encoding/json writes unescaped.                         *)
(***************************************************************************)
EXTENDS Naturals, Sequences, FiniteSets, TLC

VARIABLES
    schema,     \* the parsed schema tree handed to Generate, in Walk's order
    descend,    \* whether jsonschema.Walk goes on into the sub-schemas
    pc,         \* the position of the call
    node,       \* the index of the schema node the visitor is called on next
    groups,     \* generate's groups slice (byName is its index by name)
    buf,        \* the output buffer
    text,       \* a property description handed to the comment writer
    exs         \* a property's examples handed to the examples writer

vars == <<schema, descend, pc, node, groups, buf, text, exs>>

(***************************************************************************)
(* Strings.                                                                *)
(***************************************************************************)

\* The characters of the model in ascending byte order.
ByteOrder == "\t\n \"-0123456789:GH[]abcdx{}"

Char(s, i) == SubSeq(s, i, i)

Ord(c) == CHOOSE i \in 1..Len(ByteOrder) : Char(ByteOrder, i) = c

\* Go's s < t on strings: bytewise lexicographic order.
RECURSIVE StrLess(_, _)
StrLess(s, t) ==
    IF t = "" THEN FALSE
    ELSE IF s = "" THEN TRUE
    ELSE IF Char(s, 1) = Char(t, 1)
         THEN StrLess(SubSeq(s, 2, Len(s)), SubSeq(t, 2, Len(t)))
         ELSE Ord(Char(s, 1)) < Ord(Char(t, 1))

\* The white space among the characters of the model.
IsSpace(c) == c \in {" ", "\t", "\n"}

RECURSIVE TrimLeft(_)
TrimLeft(s) ==
    IF s # "" /\ IsSpace(Char(s, 1)) THEN TrimLeft(SubSeq(s, 2, Len(s))) ELSE s

RECURSIVE TrimRight(_)
TrimRight(s) ==
    IF s # "" /\ IsSpace(Char(s, Len(s)))
    THEN TrimRight(SubSeq(s, 1, Len(s) - 1)) ELSE s

\* strings.TrimSpace
TrimSpace(s) == TrimRight(TrimLeft(s))

RECURSIVE Ascending(_)
Ascending(S) ==
    IF S = {} THEN <<>>
    ELSE LET m == CHOOSE x \in S : \A y \in S : x <= y
         IN  <<m>> \o Ascending(S \ {m})

\* strings.Split(s, "\n"): the pieces between the line breaks, at least one.
Split(s) ==
    LET breaks == Ascending({ i \in 1..Len(s) : Char(s, i) = "\n" })
        cuts   == <<0>> \o breaks \o <<Len(s) + 1>>
    IN  [k \in 1..(Len(breaks) + 1) |-> SubSeq(s, cuts[k] + 1, cuts[k + 1] - 1)]

RECURSIVE Repeat(_, _)
Repeat(s, n) == IF n = 0 THEN "" ELSE s \o Repeat(s, n - 1)

(***************************************************************************)
(* JSON values (interface{} as decoded by encoding/json) and their         *)
(* encodings.                                                              *)
(***************************************************************************)

Null    == [t |-> "null", s |-> "", e |-> <<>>]
Num(d)  == [t |-> "num", s |-> d, e |-> <<>>]
Str(s)  == [t |-> "str", s |-> s, e |-> <<>>]
Arr(e)  == [t |-> "arr", s |-> "", e |-> e]

\* json.Marshal: the compact encoding.
RECURSIVE Marshal(_)
RECURSIVE MarshalElems(_, _)
Marshal(v) ==
    CASE v.t = "null" -> "null"
      [] v.t = "num"  -> v.s
      [] v.t = "str"  -> "\"" \o v.s \o "\""
      [] v.t = "arr"  -> "[" \o MarshalElems(v.e, 1) \o "]"

MarshalElems(e, i) ==
    IF i > Len(e) THEN ""
    ELSE (IF i > 1 THEN "," ELSE "") \o Marshal(e[i]) \o MarshalElems(e, i + 1)

\* json.MarshalIndent / json.Indent: every element of a non-empty array on a
\* line of its own, each line after the first begun by prefix and one indent
\* per level of nesting.
RECURSIVE IndentAt(_, _, _, _)
RECURSIVE IndentElems(_, _, _, _, _)
IndentAt(v, prefix, indent, depth) ==
    IF v.t = "arr" /\ Len(v.e) > 0
    THEN "[" \o IndentElems(v.e, 1, prefix, indent, depth + 1)
             \o "\n" \o prefix \o Repeat(indent, depth) \o "]"
    ELSE Marshal(v)

IndentElems(e, i, prefix, indent, depth) ==
    IF i > Len(e) THEN ""
    ELSE (IF i > 1 THEN "," ELSE "")
         \o "\n" \o prefix \o Repeat(indent, depth)
         \o IndentAt(e[i], prefix, indent, depth)
         \o IndentElems(e, i + 1, prefix, indent, depth)

MarshalIndent(v, prefix, indent) == IndentAt(v, prefix, indent, 0)

longChars == 30

\* marshalIndentIfLong with the threshold off by one.
marshalIndentIfLongFrom30(v, prefix, indent) ==
    IF Len(Marshal(v)) >= longChars
    THEN MarshalIndent(v, prefix, indent)
    ELSE Marshal(v)

marshalIndentIfLong(v, prefix, indent) ==
    IF Len(Marshal(v)) > longChars
    THEN MarshalIndent(v, prefix, indent)
    ELSE Marshal(v)

\* commentLine with the space written on an empty line too.
commentLineAlwaysSpaced(indent, space, line) ==
    indent \o "//" \o space \o line

\* One line of a comment: the indent, the marker, the space unless the line is
\* empty, the line.
commentLine(indent, space, line) ==
    indent \o "//" \o (IF line # "" THEN space ELSE "") \o line

RECURSIVE commentLines(_, _, _, _)
commentLines(lines, i, indent, space) ==
    IF i > Len(lines) THEN ""
    ELSE (IF i > 1 THEN "\n" ELSE "")
         \o commentLine(indent, space, lines[i])
         \o commentLines(lines, i + 1, indent, space)

\* writeJSONComment: what it appends to the buffer.
writeJSONComment(indent, space, txt) ==
    commentLines(Split(TrimSpace(txt)), 1, indent, space)

\* writeJSONValue with the encoder set to SetIndent("\t", "\t"): Encode's
\* output without its trailing newline.  A nil *interface{} encodes as null.
writeJSONValue(v) == MarshalIndent(v, "\t", "\t")


(***************************************************************************)
(* The schema: properties as written in the JSON text, and as parsed.      *)
(***************************************************************************)

Bool(b) == [t |-> "bool", s |-> b, e |-> <<>>]

\* A pointer is a sequence of length 0 (nil) or 1.
NilPtr == <<>>

\* The declarations of const and default in a property's JSON text.
ValueDecls ==
    [const : {<<>>, <<Null>>, <<Num("1")>>}, default : {<<>>, <<Num("2")>>}]

\* The extension members hide and group in a property's JSON text; a group
\* that is a number and not a string is a malformed one.
ExtDecls ==
    { [hide |-> <<>>,             group |-> <<>>],
      [hide |-> <<Bool("true")>>, group |-> <<>>],
      [hide |-> <<Bool("true")>>, group |-> <<Str("G")>>],
      [hide |-> <<>>,             group |-> <<Str("G")>>],
      [hide |-> <<>>,             group |-> <<Str("G\nH")>>],
      [hide |-> <<>>,             group |-> <<Num("1")>>] }

\* The declarations of description and examples.
DocDecls ==
    { [description |-> <<>>,    examples |-> <<>>],
      [description |-> <<"b">>, examples |-> <<Str("d")>>] }

IsPlain(v) == v.const = <<>> /\ v.default = <<>>
IsUndocumented(d) == d.description = <<>> /\ d.examples = <<>>

\* The property texts of the model: the visible ungrouped properties with
\* every declaration of a value, and a selection of the documented, hidden,
\* grouped and malformed ones.
RawProperties ==
    { p \in [value : ValueDecls, ext : ExtDecls, doc : DocDecls] :
        \/ /\ p.ext.hide = <<>> /\ p.ext.group = <<>>
           /\ IsUndocumented(p.doc) \/ p.value.const = <<>>
        \/ /\ p.ext.hide # <<>> /\ p.ext.group = <<>>
           /\ p.value.const = <<Num("1")>> /\ p.value.default # <<>>
           /\ ~IsUndocumented(p.doc)
        \/ /\ p.ext.hide # <<>> /\ p.ext.group # <<>>
           /\ IsPlain(p.value) /\ IsUndocumented(p.doc)
        \/ /\ p.ext.hide = <<>> /\ p.ext.group = <<Str("G")>>
           /\ p.value.default = <<>> /\ p.value.const # <<Null>>
           /\ IsUndocumented(p.doc)
        \/ /\ p.ext.hide = <<>>
           /\ p.ext.group \in {<<Str("G\nH")>>, <<Num("1")>>}
           /\ IsPlain(p.value) /\ IsUndocumented(p.doc) }

\* encoding/json on a pointer field: an absent member and a JSON null both
\* leave the pointer nil.
ParsePointer(decl) == IF decl = <<>> \/ decl = <<Null>> THEN NilPtr ELSE decl

\* json.Unmarshal of a property's text into a jsonschema.Schema.
ParseProperty(raw) ==
    [ Description |-> raw.doc.description,
      Const       |-> ParsePointer(raw.value.const),
      Default     |-> ParsePointer(raw.value.default),
      Examples    |-> raw.doc.examples,
      Raw         |-> raw ]

\* json.Unmarshal(*prop.Raw, &extra): a member of the wrong type is an error.
UnmarshalExtra(raw) ==
    [ err   |-> \/ raw.ext.hide # <<>> /\ raw.ext.hide[1].t \notin {"bool", "null"}
                \/ raw.ext.group # <<>> /\ raw.ext.group[1].t \notin {"str", "null"},
      Hide  |-> raw.ext.hide = <<Bool("true")>>,
      Group |-> IF raw.ext.group # <<>> /\ raw.ext.group[1].t = "str"
                THEN raw.ext.group[1].s ELSE "" ]

MaxSubs == 1

RootNames == {"a", "b"}
SubNames  == {"a"}

\* The properties as parsed.
Properties == { ParseProperty(r) : r \in RawProperties }

\* A schema node: Properties is nil or points to a map from names to
\* properties.
NodesOver(names) ==
    {[Properties |-> NilPtr]} \cup
    { [Properties |-> <<m>>] :
        m \in UNION { [S -> Properties] : S \in SUBSET names } }

RootNodes == NodesOver(RootNames)
SubNodes  == NodesOver(SubNames)

\* The schema trees: the root and its composed sub-schemas, in the order in
\* which Walk meets them.  The property schemas themselves declare no
\* properties of their own, and the visitor returns at once on them.
IsSchemaTree(t) ==
    \E k \in 0..MaxSubs :
        \E r \in RootNodes, subs \in [1..k -> SubNodes] : t = <<r>> \o subs

(***************************************************************************)
(* generate: the visitor that collects the properties into groups.         *)
(***************************************************************************)

\* The property built from a declaration (the literal p and the two ifs that
\* follow it).
propertyOf(name, prop) ==
    [ name     |-> name,
      examples |-> prop.Examples,
      value    |-> IF prop.Const # NilPtr THEN prop.Const
                   ELSE IF prop.Default # NilPtr THEN prop.Default
                   ELSE NilPtr,
      first    |-> prop.Const # NilPtr,
      comment  |-> IF prop.Description # NilPtr THEN prop.Description[1] ELSE "" ]

\* isHidden with the hide member ignored.
isHiddenIgnored(extra) == FALSE

\* Whether the visitor skips the property.
isHidden(extra) == extra.Hide

\* The group of that name gets the property; a name met for the first time
\* gets a new group at the end of the slice.
addToGroup(gs, groupName, p) ==
    IF \E k \in 1..Len(gs) : gs[k].name = groupName
    THEN [k \in 1..Len(gs) |->
            IF gs[k].name = groupName
            THEN [gs[k] EXCEPT !.properties = Append(@, p)]
            ELSE gs[k]]
    ELSE Append(gs, [name |-> groupName, properties |-> <<p>>])

\* The visitor's loop over the property map of one schema, the map iterated
\* over in the order ord.  A property whose text does not decode into extra
\* makes the visitor panic.
RECURSIVE visitProperties(_, _, _, _)
visitProperties(props, ord, i, gs) ==
    IF i > Len(ord) THEN [panic |-> FALSE, groups |-> gs]
    ELSE LET name  == ord[i]
             prop  == props[name]
             extra == UnmarshalExtra(prop.Raw)
         IN  IF extra.err THEN [panic |-> TRUE, groups |-> gs]
             ELSE IF isHidden(extra) THEN visitProperties(props, ord, i + 1, gs)
             ELSE visitProperties(props, ord, i + 1,
                      addToGroup(gs, extra.Group, propertyOf(name, prop)))

\* The orders in which a map with the keys S may be iterated over.
IterationOrders(S) ==
    { q \in [1..Cardinality(S) -> S] : \A i, j \in DOMAIN q : i # j => q[i] # q[j] }

\* Whether generate walks the schema at all.
rootHasProperties(root) == root.Properties # NilPtr

(***************************************************************************)
(* Generate: the sort.                                                     *)
(***************************************************************************)

\* lessGroup with the comparison turned round.
lessGroupDescending(x, y) == StrLess(y.name, x.name)

lessGroup(x, y) == StrLess(x.name, y.name)

lessProperty(x, y) ==
    IF x.first = y.first THEN StrLess(x.name, y.name) ELSE x.first

Less(kind, x, y) == IF kind = "group" THEN lessGroup(x, y) ELSE lessProperty(x, y)

Swap(s, i, j) == [s EXCEPT ![i] = s[j], ![j] = s[i]]

\* sort.Slice on fewer than 12 elements is an insertion sort.
RECURSIVE InsertDown(_, _, _)
InsertDown(kind, s, j) ==
    IF j > 1 /\ Less(kind, s[j], s[j - 1])
    THEN InsertDown(kind, Swap(s, j, j - 1), j - 1)
    ELSE s

RECURSIVE InsertionSortFrom(_, _, _)
InsertionSortFrom(kind, s, i) ==
    IF i > Len(s) THEN s
    ELSE InsertionSortFrom(kind, InsertDown(kind, s, i), i + 1)

sortSlice(kind, s) == InsertionSortFrom(kind, s, 2)

\* The groups sorted by name, and each group's properties sorted.
sortGroups(gs) ==
    LET sorted == sortSlice("group", gs)
    IN  [k \in 1..Len(sorted) |->
            [sorted[k] EXCEPT !.properties = sortSlice("property", @)]]

(***************************************************************************)
(* Generate: the rendering.                                                *)
(***************************************************************************)

Rule == "////////////////////////////////////////////////////////////"

RECURSIVE totalProps(_, _)
totalProps(gs, j) ==
    IF j > Len(gs) THEN 0 ELSE Len(gs[j].properties) + totalProps(gs, j + 1)

\* The comment block of a property description, when there is one.
writeDescription(comment) ==
    IF comment # "" THEN writeJSONComment("\t", " ", comment) \o "\n" ELSE ""

RECURSIVE writeExampleLines(_, _)
writeExampleLines(examples, i) ==
    IF i > Len(examples) THEN ""
    ELSE (IF i > 1 THEN "\n" ELSE "")
         \o writeJSONComment("\t", " ",
                "- " \o marshalIndentIfLong(examples[i], "  ", "  "))
         \o writeExampleLines(examples, i + 1)

\* The example-values block of a property.
writeExamples(examples) ==
    IF Len(examples) > 0
    THEN "\n" \o writeJSONComment("\t", " ", "Other example values:") \o "\n"
         \o writeExampleLines(examples, 1)
    ELSE ""

\* hasComma with the last entry of the group taken for the last of the
\* document.
hasCommaWithinGroup(pi, i, group, total) == i # Len(group.properties)

\* Whether the entry that is the pi-th of the document gets a comma.
hasComma(pi, i, group, total) == pi # total

\* The entry of the i-th property of a group, pi-th of the document.
writeProperty(group, i, pi, total) ==
    LET prop == group.properties[i]
    IN  (IF i = 1 THEN "\n" ELSE "\n\n")
        \o writeDescription(prop.comment)
        \o "\t" \o writeJSONValue(Str(prop.name)) \o ": "
        \o writeJSONValue(IF prop.value = NilPtr THEN Null ELSE prop.value[1])
        \o (IF hasComma(pi, i, group, total) THEN "," ELSE "")
        \o writeExamples(prop.examples)

RECURSIVE writeProperties(_, _, _, _)
writeProperties(group, i, pi, total) ==
    IF i > Len(group.properties) THEN ""
    ELSE writeProperty(group, i, pi + 1, total)
         \o writeProperties(group, i + 1, pi + 1, total)

\* The banner of a group with a name.
writeBanner(name) ==
    IF name # ""
    THEN writeJSONComment("", "", Rule) \o "\n"
         \o writeJSONComment("", " ", name) \o "\n"
         \o writeJSONComment("", "", Rule) \o "\n"
    ELSE ""

\* The j-th group, pi properties written before it.
writeGroup(gs, j, pi, total) ==
    (IF j = 1 THEN (IF gs[j].name # "" THEN "\n" ELSE "") ELSE "\n\n")
    \o writeBanner(gs[j].name)
    \o writeProperties(gs[j], 1, pi, total)

RECURSIVE writeGroups(_, _, _, _)
writeGroups(gs, j, pi, total) ==
    IF j > Len(gs) THEN ""
    ELSE writeGroup(gs, j, pi, total)
         \o writeGroups(gs, j + 1, pi + Len(gs[j].properties), total)

\* What Generate writes after the opening brace.
writeDocument(gs) ==
    LET total == totalProps(gs, 1)
    IN  writeGroups(gs, 1, 0, total) \o (IF total > 0 THEN "\n" ELSE "") \o "}"

(***************************************************************************)
(* One call of Generate.                                                   *)
(***************************************************************************)

Init ==
    /\ IsSchemaTree(schema)
    /\ descend \in BOOLEAN
    /\ pc = "start"
    /\ node = 0
    /\ groups = <<>>
    /\ buf = ""
    /\ text = ""
    /\ exs = <<>>

\* Generate opens the buffer and calls generate, which returns nil at once
\* for a root without properties.
Start ==
    /\ pc = "start"
    /\ buf' = "{"
    /\ IF rootHasProperties(schema[1])
       THEN pc' = "walk" /\ node' = 1
       ELSE pc' = "sort" /\ node' = node
    /\ UNCHANGED <<schema, descend, groups, text, exs>>

\* jsonschema.Walk calls the visitor on a schema.  The visitor collects the
\* properties of that schema and returns nil.  Walk belongs to the schema
\* library: a Walk in the manner of go/ast stops below a schema whose visit
\* returns nil, one that walks the whole tree goes on to the sub-schemas;
\* descend says which of the two the library does.
Visit ==
    /\ pc = "walk"
    /\ LET props == IF schema[node].Properties = NilPtr
                    THEN <<>> ELSE schema[node].Properties[1]
       IN  \E ord \in IterationOrders(DOMAIN props) :
             LET r == visitProperties(props, ord, 1, groups)
             IN  IF r.panic
                 THEN pc' = "panic" /\ UNCHANGED <<groups, node>>
                 ELSE /\ groups' = r.groups
                      /\ IF descend /\ node < Len(schema)
                         THEN pc' = "walk" /\ node' = node + 1
                         ELSE pc' = "sort" /\ node' = node
    /\ UNCHANGED <<schema, descend, buf, text, exs>>

Sort ==
    /\ pc = "sort"
    /\ groups' = sortGroups(groups)
    /\ pc' = "render"
    /\ UNCHANGED <<schema, descend, node, buf, text, exs>>

Render ==
    /\ pc = "render"
    /\ buf' = buf \o writeDocument(groups)
    /\ pc' = "done"
    /\ UNCHANGED <<schema, descend, node, groups, text, exs>>

Next == Start \/ Visit \/ Sort \/ Render

Spec == Init /\ [][Next]_vars

(***************************************************************************)
(* What the schema declares, and how the document reads.                   *)
(***************************************************************************)

\* The declared properties: <<n, name>> is the property name of node n.
Declared ==
    { d \in (1..Len(schema)) \X (RootNames \cup SubNames) :
        /\ schema[d[1]].Properties # NilPtr
        /\ d[2] \in DOMAIN schema[d[1]].Properties[1] }

RawOf(d) == schema[d[1]].Properties[1][d[2]].Raw

\* A property is marked hidden by the member "hide": true.
MarkedHidden(d) == RawOf(d).ext.hide = <<Bool("true")>>

\* The group a property names; none, or one that is no string, is no group.
DeclaredGroup(d) ==
    LET g == RawOf(d).ext.group
    IN  IF g # <<>> /\ g[1].t = "str" THEN g[1].s ELSE ""

DeclaresConst(d) == RawOf(d).value.const # <<>>

\* The value the declarations call for: the constant, else the default, else
\* null.
DeclaredValue(d) ==
    LET v == RawOf(d).value
    IN  IF v.const # <<>> THEN v.const[1]
        ELSE IF v.default # <<>> THEN v.default[1]
        ELSE Null

VisibleNamed(name) == { d \in Declared : d[2] = name /\ ~MarkedHidden(d) }

Collected == pc \in {"sort", "render", "done"}

RECURSIVE Flatten(_, _)
Flatten(gs, j) ==
    IF j > Len(gs) THEN <<>> ELSE gs[j].properties \o Flatten(gs, j + 1)

\* The descriptors of all the groups, in the order of the groups.
Descriptors == Flatten(groups, 1)

DescriptorsNamed(name) ==
    { k \in 1..Len(Descriptors) : Descriptors[k].name = name }

StartsWith(line, pre) ==
    Len(line) >= Len(pre) /\ SubSeq(line, 1, Len(pre)) = pre

EndsWith(line, suf) ==
    Len(line) >= Len(suf)
    /\ SubSeq(line, Len(line) - Len(suf) + 1, Len(line)) = suf

\* The lines of the document that begin an entry: a tab and a quoted name.
EntryLines(L) == { k \in 1..Len(L) : StartsWith(L[k], "\t\"") }

EntryLinesOf(L, name) ==
    { k \in 1..Len(L) : StartsWith(L[k], "\t\"" \o name \o "\": ") }

\* The full-width rule lines of the banners.
RuleLines(L) == { k \in 1..Len(L) : L[k] = "//" \o Rule }

\* All the orders of a sequence.
Reorderings(s) ==
    { [i \in 1..Len(s) |-> s[q[i]]] : q \in IterationOrders(1..Len(s)) }

\* The same descriptors collected in another order: the groups met in
\* another order, and the properties of each group met in another order.
CollectionOrders(gs) ==
    UNION { Reorderings(hs) :
            hs \in { h \in [1..Len(gs) ->
                             UNION { { [name |-> gs[k].name, properties |-> ps] :
                                       ps \in Reorderings(gs[k].properties) } :
                                     k \in 1..Len(gs) }] :
                     \A k \in 1..Len(gs) :
                        /\ h[k].name = gs[k].name
                        /\ h[k].properties \in Reorderings(gs[k].properties) } }

(***************************************************************************)
(* The claims about one call of Generate.                                  *)
(***************************************************************************)

\* C1: once the properties are collected, the groups hold one descriptor for
\* every declared property not marked hidden, of the root and of every
\* sub-schema, also when the root declares no properties, properties of the
\* same name all kept.
C1_EveryVisiblePropertyCollected ==
    Collected =>
        \A name \in RootNames \cup SubNames :
            Cardinality(DescriptorsNamed(name)) = Cardinality(VisibleNamed(name))

C3_MalformedExtensionTolerated == pc # "panic"

\* C4: the value written for a property is its declared constant, whatever
\* it is, else its declared default, else null.
C4_ValueIsConstElseDefault ==
    pc = "done" =>
        LET L == Split(buf)
        IN  \A d \in Declared :
                (Cardinality(VisibleNamed(d[2])) = 1 /\ ~MarkedHidden(d)) =>
                    \A k \in EntryLinesOf(L, d[2]) :
                        LET entry == "\t\"" \o d[2] \o "\": "
                                     \o Marshal(DeclaredValue(d))
                        IN  L[k] \in {entry, entry \o ","}

\* C5: a property marked hidden gets no descriptor and no entry, its
\* description and examples are not written, it is not counted for the
\* commas, and a schema whose properties are all hidden gives {}.
C5_HiddenNeverRendered ==
    /\ Collected =>
          \A name \in RootNames \cup SubNames :
              Cardinality(DescriptorsNamed(name)) <= Cardinality(VisibleNamed(name))
    /\ pc = "done" =>
          LET L == Split(buf)
          IN  /\ \A name \in RootNames \cup SubNames :
                    Cardinality(EntryLinesOf(L, name))
                        <= Cardinality(VisibleNamed(name))
              /\ (\A d \in Declared : MarkedHidden(d)) => buf = "{}"
              /\ \A k \in EntryLines(L) :
                    EndsWith(L[k], ",") => \E m \in EntryLines(L) : m > k
              /\ (\A d \in Declared :
                     IsUndocumented(RawOf(d).doc) \/ MarkedHidden(d))
                    => \A k \in 1..Len(L) : ~StartsWith(L[k], "\t//")

\* A call that ran to its end on a schema with a documented hidden property
\* that declares a constant and a default, beside a visible one.
C5_Witness ==
    /\ pc = "done"
    /\ \E d \in Declared :
          /\ d[1] = 1 /\ MarkedHidden(d)
          /\ RawOf(d).doc.description # <<>> /\ RawOf(d).value.const # <<>>
    /\ \E d \in Declared : d[1] = 1 /\ ~MarkedHidden(d)
    /\ buf # "{}"

\* C6: within a group the properties that declare a constant come before
\* those that do not, and those alike in that come in ascending order of
\* name.
C6_ConstantsFirstThenByName ==
    pc = "done" =>
      LET L == Split(buf)
      IN  \A d1, d2 \in Declared :
            ( /\ ~MarkedHidden(d1) /\ ~MarkedHidden(d2)
              /\ Cardinality(VisibleNamed(d1[2])) = 1
              /\ Cardinality(VisibleNamed(d2[2])) = 1
              /\ DeclaredGroup(d1) = DeclaredGroup(d2)
              /\ \/ DeclaresConst(d1) /\ ~DeclaresConst(d2)
                 \/ DeclaresConst(d1) = DeclaresConst(d2) /\ StrLess(d1[2], d2[2]) )
            => \A k1 \in EntryLinesOf(L, d1[2]), k2 \in EntryLinesOf(L, d2[2]) :
                  k1 < k2

\* The groups with a name, in the order of the groups.
NamedGroups == SelectSeq(groups, LAMBDA g : g.name # "")

\* The groups are in strictly ascending order of name, so no two groups have
\* the same name and a group without a name is the first.
GroupsAscending ==
    \A i, j \in 1..Len(groups) : i < j => StrLess(groups[i].name, groups[j].name)

\* The group without a name has no banner: its entries, and no others, come
\* before the first rule line.
UnnamedGroupFirstWithoutBanner(L) ==
    LET R == Ascending(RuleLines(L))
        before == { k \in EntryLines(L) : Len(R) > 0 => k < R[1] }
    IN  Cardinality(before)
          = (IF groups # <<>> /\ groups[1].name = ""
             THEN Len(groups[1].properties) ELSE 0)

\* Every group with a name has a banner of its own, opened and closed by a
\* rule line, and its entries come between its banner and the next.
OneBannerPerNamedGroup(L) ==
    LET R == Ascending(RuleLines(L))
        N == NamedGroups
    IN  /\ Len(R) = 2 * Len(N)
        /\ \A i \in 1..Len(N) :
              Cardinality({ k \in EntryLines(L) :
                              /\ k > R[2 * i]
                              /\ i < Len(N) => k < R[2 * i + 1] })
                = Len(N[i].properties)

\* The lines between the two rule lines of the i-th banner.
BannerBody(L, i) ==
    LET R == Ascending(RuleLines(L))
    IN  SubSeq(L, R[2 * i - 1] + 1, R[2 * i] - 1)

\* C7 as stated: the groups are rendered in strictly ascending order of
\* name, one group and one banner for a name, the group without a name first
\* and without a banner, every other group preceded by a banner of three
\* lines.
C7_ThreeLineBanners ==
    pc = "done" =>
        LET L == Split(buf)
        IN  /\ GroupsAscending
            /\ UnnamedGroupFirstWithoutBanner(L)
            /\ OneBannerPerNamedGroup(L)
            /\ \A i \in 1..Len(NamedGroups) : Len(BannerBody(L, i)) = 1

\* C7 as amended: the same, the banner being a rule line, one comment line
\* for every line of the trimmed group name, and a rule line.
C7_GroupsAscendingWithBanners ==
    pc = "done" =>
        LET L == Split(buf)
        IN  /\ GroupsAscending
            /\ UnnamedGroupFirstWithoutBanner(L)
            /\ OneBannerPerNamedGroup(L)
            /\ \A i \in 1..Len(NamedGroups) :
                  LET nameLines == Split(TrimSpace(NamedGroups[i].name))
                  IN  BannerBody(L, i)
                        = [m \in 1..Len(nameLines) |->
                             IF nameLines[m] = "" THEN "//"
                             ELSE "// " \o nameLines[m]]

\* A document with two groups with a name, collected from the root alone.
C7_Witness ==
    /\ pc = "done"
    /\ ~descend
    /\ Len(NamedGroups) = 2

\* C8: in a document with properties every entry's value is followed at once
\* by a comma, but for the last entry of the document; the last entry of a
\* group that is not the last has its comma, and the comma comes before the
\* entry's example values.
C8_CommaAfterEveryEntryButLast ==
    pc = "done" =>
        LET L == Split(buf)
            E == Ascending(EntryLines(L))
            P == Descriptors
        IN  /\ Len(E) = Len(P)
            /\ \A k \in 1..Len(E) :
                  /\ L[E[k]] = "\t\"" \o P[k].name \o "\": "
                               \o Marshal(IF P[k].value = NilPtr THEN Null
                                          ELSE P[k].value[1])
                               \o (IF k < Len(E) THEN "," ELSE "")
                  /\ P[k].examples # <<>> =>
                        L[E[k] + 1] = "\t// Other example values:"

\* A document of two groups, the last entry of the first with examples.
C8_Witness ==
    /\ pc = "done"
    /\ Len(groups) >= 2
    /\ groups[1].properties[Len(groups[1].properties)].examples # <<>>

(***************************************************************************)
(* The comment block of a description, on its own.                         *)
(***************************************************************************)

MaxTextLen == 4

TextAlphabet == {"a", " ", "\n", "\t"}

RECURSIVE Concat(_, _)
Concat(q, i) == IF i > Len(q) THEN "" ELSE q[i] \o Concat(q, i + 1)

Texts ==
    { Concat(q, 1) : q \in UNION { [1..n -> TextAlphabet] : n \in 0..MaxTextLen } }

InitComment ==
    /\ text \in Texts
    /\ pc = "description"
    /\ buf = ""
    /\ schema = <<>>
    /\ descend = FALSE
    /\ node = 0
    /\ groups = <<>>
    /\ exs = <<>>

\* Generate writes the description of a property.
WriteDescription ==
    /\ pc = "description"
    /\ buf' = buf \o writeDescription(text)
    /\ pc' = "described"
    /\ UNCHANGED <<schema, descend, node, groups, text, exs>>

NextComment == WriteDescription

SpecComment == InitComment /\ [][NextComment]_vars

\* The text without the white space before its first and after its last
\* character that is none.
Trimmed(s) ==
    LET ink == { i \in 1..Len(s) : ~IsSpace(Char(s, i)) }
    IN  IF ink = {} THEN ""
        ELSE SubSeq(s, CHOOSE i \in ink : \A j \in ink : i <= j,
                       CHOOSE i \in ink : \A j \in ink : i >= j)

\* C9: the comment block of a description that is not empty has one line
\* for every line of the trimmed description, in order, a line that is not
\* empty as the marker, one space and the line, an empty line as the bare
\* marker; an empty description gives no comment line.
C9_OneCommentLinePerLine ==
    pc = "described" =>
        IF text = "" THEN buf = ""
        ELSE LET lines == Split(Trimmed(text))
                 out   == Split(buf)
             IN  /\ Len(out) = Len(lines) + 1
                 /\ out[Len(out)] = ""
                 /\ \A m \in 1..Len(lines) :
                       out[m] = IF lines[m] = "" THEN "\t//"
                                ELSE "\t// " \o lines[m]

\* A description of three lines, the second empty, has been written.
C9_Witness ==
    /\ pc = "described"
    /\ text = "a\n\na"
    /\ buf = "\t// a\n\t//\n\t// a\n"

(***************************************************************************)
(* The example values of a property, on their own.                         *)
(***************************************************************************)

MaxExamples == 2

\* Example values with compact encodings of 1 to 37 characters, of 30 and
\* of 31 among them.
ExampleValues ==
    { Num("7"),
      Str("d1"),
      Arr(<<>>),
      Arr(<<Str("d3")>>),
      Arr(<<Str("d44444444444"), Str("d5555555555")>>),
      Arr(<<Str("d44444444444"), Str("d55555555555")>>),
      Str("d6666666666666666666666666666"),
      Arr(<<Arr(<<Str("d44444444444444")>>), Str("d555555555555")>>) }

InitExamples ==
    /\ exs \in UNION { [1..n -> ExampleValues] : n \in 0..MaxExamples }
    /\ pc = "examples"
    /\ buf = ""
    /\ schema = <<>>
    /\ descend = FALSE
    /\ node = 0
    /\ groups = <<>>
    /\ text = ""

\* Generate writes the example values of a property.
WriteExamples ==
    /\ pc = "examples"
    /\ buf' = buf \o writeExamples(exs)
    /\ pc' = "exampled"
    /\ UNCHANGED <<schema, descend, node, groups, text, exs>>

NextExamples == WriteExamples

SpecExamples == InitExamples /\ [][NextExamples]_vars

\* The text without its spaces and line breaks.
RECURSIVE Unspaced(_, _)
Unspaced(s, i) ==
    IF i > Len(s) THEN ""
    ELSE (IF IsSpace(Char(s, i)) THEN "" ELSE Char(s, i)) \o Unspaced(s, i + 1)

\* The comment lines of one example: the compact encoding on one line if it
\* has at most 30 characters, else the lines of the encoding indented by two
\* spaces, each a comment line of its own.
ExampleLines(x) ==
    IF Len(Marshal(x)) <= 30
    THEN <<"\t// - " \o Marshal(x)>>
    ELSE LET q == Split(MarshalIndent(x, "  ", "  "))
         IN  [m \in 1..Len(q) |-> "\t// " \o (IF m = 1 THEN "- " ELSE "") \o q[m]]

RECURSIVE AllExampleLines(_, _)
AllExampleLines(examples, i) ==
    IF i > Len(examples) THEN <<>>
    ELSE ExampleLines(examples[i]) \o AllExampleLines(examples, i + 1)

\* C10: the examples are written, in their order, after the line "Other
\* example values:", each as one comment line with its compact encoding if
\* that has at most 30 characters, else as the lines of its encoding
\* indented by two spaces, each a comment line; without examples nothing is
\* written.
C10_ExamplesCompactOrIndented ==
    pc = "exampled" =>
        IF exs = <<>> THEN buf = ""
        ELSE /\ Split(buf)
                  = <<"", "\t// Other example values:">> \o AllExampleLines(exs, 1)
             /\ \A i \in 1..Len(exs) :
                   LET q == Split(MarshalIndent(exs[i], "  ", "  "))
                   IN  /\ Unspaced(Concat(q, 1), 1) = Marshal(exs[i])
                       /\ \A m \in 2..Len(q) : StartsWith(q[m], "  ")

\* Two examples have been written, the first with a compact encoding of 30
\* characters, the second with one of 31.
C10_Witness ==
    /\ pc = "exampled"
    /\ Len(exs) = 2
    /\ Len(Marshal(exs[1])) = 30
    /\ Len(Marshal(exs[2])) = 31

=============================================================================
